---- MODULE Spec2Model ----
(***************************************************************************)
(* Two-level cache simulator (src/main.cpp): the Cache class (set           *)
(* associative storage, per-set LRU list, two-step miss allocation, the     *)
(* statistics counters) and the trace driver process_trace_file with its    *)
(* line parser.                                                             *)
(*                                                                          *)
(* A trace line is a sequence of one-character strings.  The hierarchy is   *)
(* threaded through the recursive operators as a record                     *)
(*   [L1, L2 : cache objects, mem : what the memory stubs were asked,       *)
(*    log : the calls of the current reference in call order,               *)
(*    obs : per level, the calls of Cache::access seen so far].             *)
(***************************************************************************)
EXTENDS Integers, Sequences, FiniteSets, TLC

VARIABLES
    cfg,             \* the command-line configuration (main, argv[1..5])
    l1_cache,        \* main: Cache l1_cache
    l2_cache,        \* main: Cache l2_cache
    mem,             \* calls of handle_memory_read / handle_memory_write
    line_number,     \* process_trace_file: int line_number
    total_accesses,  \* process_trace_file: unsigned long total_accesses
    well_formed,     \* lines read so far that have the documented format
    step_log,        \* the calls made while the last line was processed
    obs,             \* per level: accesses received, dirty victims evicted
    pc,              \* where main is
    outputs,         \* what main has written to stdout and stderr
    trace_file,      \* the lines of the trace file, where a specification
                     \* fixes them in advance (<<>> where each line is
                     \* chosen when it is read)
    larger           \* a second run of the simulator on the same trace file
                     \* with a larger L1 (a hierarchy record, <<>> if none)

vars == <<cfg, l1_cache, l2_cache, mem, line_number, total_accesses,
          well_formed, step_log, obs, pc, outputs, trace_file, larger>>

----------------------------------------------------------------------------
(* Bounds of the model *)

\* lines read from the trace file
MaxLines == 4
\* largest byte address a generated trace line names
MaxAddr == 4

----------------------------------------------------------------------------
(* struct CacheBlock, struct CacheStats *)

CacheBlock == [valid |-> FALSE, dirty |-> FALSE, tag |-> 0]

CacheStats == [reads |-> 0, writes |-> 0, read_hits |-> 0, write_hits |-> 0,
               read_misses |-> 0, write_misses |-> 0, writebacks |-> 0]

Levels == {"L1", "L2"}

is_enabled(c) == c.size > 0

\* Cache::initialize_cache: all blocks default-constructed, every LRU list
\* holds the way indices 0 .. associativity-1, front first
initialize_cache(num_sets, associativity) ==
    [cache_sets |-> [set \in 0..(num_sets - 1) |->
                        [way \in 0..(associativity - 1) |-> CacheBlock]],
     lru_lists  |-> [set \in 0..(num_sets - 1) |->
                        [i \in 1..associativity |-> i - 1]]]

\* int / int, truncating toward zero.  Division by zero is undefined: where
\* it does not trap the quotient is taken to be 0 here; the trap is an
\* outcome of its own (DividesByZero, MainInit).
IntDiv(a, b) ==
    IF b = 0 THEN 0
    ELSE IF (a >= 0) = (b > 0) THEN (IF a >= 0 THEN a ELSE -a) \div (IF b > 0 THEN b ELSE -b)
    ELSE -((IF a >= 0 THEN a ELSE -a) \div (IF b > 0 THEN b ELSE -b))

\* Cache::Cache(bs, s, assoc, next)
Cache(bs, s, assoc, next) ==
    LET enabled    == s > 0
        num_blocks == IF enabled THEN IntDiv(s, bs) ELSE 0
        num_sets   == IF enabled THEN IntDiv(num_blocks, assoc) ELSE 0
        store      == initialize_cache(num_sets, IF enabled THEN assoc ELSE 0)
    IN  [block_size |-> bs, size |-> s, associativity |-> assoc,
         num_sets |-> num_sets, num_blocks |-> num_blocks,
         cache_sets |-> store.cache_sets, lru_lists |-> store.lru_lists,
         next_level |-> next, stats |-> CacheStats]

\* a level linked to itself
set_next_level_self(c, next) == [c EXCEPT !.next_level = "L1"]

\* Cache::set_next_level
set_next_level(c, next) == [c EXCEPT !.next_level = next]

\* the victim taken from the front of the list
get_lru_victim_front(lru_list) == lru_list[1]

\* Cache::get_lru_victim: the back of the list
get_lru_victim(lru_list) == lru_list[Len(lru_list)]

\* update_lru without list.remove(way)
update_lru_no_remove(lru_list, way) == <<way>> \o lru_list

\* Cache::update_lru: list.remove(way) then push_front(way)
update_lru(lru_list, way) ==
    <<way>> \o SelectSeq(lru_list, LAMBDA x : x # way)

----------------------------------------------------------------------------
(* What the observers record *)

\* recent[set]: the tags of the last `associativity` accesses to the set,
\* the latest first; installed: the blocks <<set, tag>> ever installed
NoObs(c) ==
    [reads |-> 0, writes |-> 0, read_misses |-> 0, write_misses |-> 0,
     dirty_evictions |-> 0, installed |-> {},
     recent |-> [set \in 0..(c.num_sets - 1) |-> <<>>],
     reference |-> [set \in 0..(c.num_sets - 1) |-> <<>>],
     unflushed |-> {}]

LastAccesses(recent, tag, n) ==
    LET all == <<tag>> \o recent
    IN  SubSeq(all, 1, IF Len(all) < n THEN Len(all) ELSE n)

Event(kind, lvl, addr, is_write, dirty) ==
    [kind |-> kind, lvl |-> lvl, addr |-> addr, is_write |-> is_write,
     dirty |-> dirty]

\* the reference model of true LRU: per set, the tags it holds ordered by
\* the time of their last access (hit or install), the latest first; a tag
\* it does not hold replaces the oldest once it holds n
RECURSIVE Without(_, _)
Without(seq, x) ==
    IF seq = <<>> THEN <<>>
    ELSE IF Head(seq) = x THEN Without(Tail(seq), x)
    ELSE <<Head(seq)>> \o Without(Tail(seq), x)

ReferenceEvicts(stack, tag, n) ==
    Len(stack) = n /\ \A i \in 1..Len(stack) : stack[i] # tag

ReferenceAccess(stack, tag, n) ==
    LET moved == <<tag>> \o Without(stack, tag)
    IN  SubSeq(moved, 1, IF Len(moved) < n THEN Len(moved) ELSE n)

\* what the reference model logs for an access: the block it evicts
ReferenceLog(log, c, lvl, stack, set_index, tag) ==
    IF ReferenceEvicts(stack, tag, c.associativity)
    THEN Append(log, Event("ref_evict", lvl,
                           (stack[Len(stack)] * c.num_sets + set_index)
                               * c.block_size, FALSE, FALSE))
    ELSE log

\* an access enters an enabled level and its lookup is decided
ObserveAccess(h, lvl, address, set_index, tag, is_write, hit) ==
    [h EXCEPT
       !.obs[lvl].recent[set_index] =
           LastAccesses(@, tag, h[lvl].associativity),
       !.obs[lvl].reference[set_index] =
           ReferenceAccess(@, tag, h[lvl].associativity),
       !.log = ReferenceLog(
                  Append(@, Event(IF hit THEN "hit" ELSE "miss", lvl, address,
                                  is_write, FALSE)),
                  h[lvl], lvl, h.obs[lvl].reference[set_index], set_index, tag),
       !.obs[lvl].reads = IF is_write THEN @ ELSE @ + 1,
       !.obs[lvl].writes = IF is_write THEN @ + 1 ELSE @,
       !.obs[lvl].read_misses = IF ~is_write /\ ~hit THEN @ + 1 ELSE @,
       !.obs[lvl].write_misses = IF is_write /\ ~hit THEN @ + 1 ELSE @]

\* the blocks (a \div B) the trace has written and the memory sink has not
\* been handed since, in a later reference: a write handed to the sink takes
\* its block out, the end of a trace write puts the written block in
ObserveSinkWrite(h, address) ==
    [h EXCEPT !.obs.L1.unflushed = @ \ {address \div h.L1.block_size}]

ObserveTraceWrite(h, lvl, address, is_write) ==
    [h EXCEPT !.obs[lvl].unflushed =
                 IF is_write THEN @ \cup {address \div h[lvl].block_size} ELSE @]

\* a valid victim is cleared
ObserveEvict(h, lvl, victim_address, dirty) ==
    [h EXCEPT
       !.log = Append(@, Event("evict", lvl, victim_address, FALSE, dirty)),
       !.obs[lvl].dirty_evictions = IF dirty THEN @ + 1 ELSE @]

\* the requested block is installed
ObserveInstall(h, lvl, address, set_index, tag, is_write) ==
    [h EXCEPT
       !.obs[lvl].installed = @ \cup {<<set_index, tag>>},
       !.log = Append(@, Event("install", lvl, address, is_write, is_write))]

----------------------------------------------------------------------------
(* Cache::handle_memory_write, Cache::handle_memory_read *)

\* handle_memory_write without stats.writebacks++
handle_memory_write_uncounted(h, lvl, address) ==
    [ObserveSinkWrite(h, address) EXCEPT
       !.mem.writes = @ + 1,
       !.log = Append(@, Event("mem_write", lvl, address, TRUE, FALSE))]

handle_memory_write(h, lvl, address) ==
    [ObserveSinkWrite(h, address) EXCEPT
       ![lvl].stats.writebacks = @ + 1,
       !.mem.writes = @ + 1,
       !.log = Append(@, Event("mem_write", lvl, address, TRUE, FALSE))]

handle_memory_read(h, lvl, address) ==
    [h EXCEPT
       !.mem.reads = @ + 1,
       !.log = Append(@, Event("mem_read", lvl, address, FALSE, FALSE))]

----------------------------------------------------------------------------
(* Cache::access and Cache::insert_block *)

\* a hit that leaves the recency order as it is
LruAfterHit_unmoved(lru_list, way) == lru_list

\* HIT: the way moves to the most recently used position
LruAfterHit(lru_list, way) == update_lru(lru_list, way)

\* a hit that leaves the block dirty only when it is a write
HitBlock_clearing(block, is_write) == [block EXCEPT !.dirty = is_write]

\* the block a write hit leaves behind
HitBlock(block, is_write) ==
    [block EXCEPT !.dirty = IF is_write THEN TRUE ELSE @]

\* STEP 3 of insert_block without valid = true
InstalledBlock_not_valid(tag, is_write) ==
    [valid |-> FALSE, dirty |-> is_write, tag |-> tag]

\* STEP 3 of insert_block installing every block clean
InstalledBlock_clean(tag, is_write) ==
    [valid |-> TRUE, dirty |-> FALSE, tag |-> tag]

\* STEP 3 of insert_block
InstalledBlock(tag, is_write) ==
    [valid |-> TRUE, dirty |-> is_write, tag |-> tag]

\* STEP 1 of insert_block writing every valid victim back
NeedsWriteback_any_valid(victim) == victim.valid

\* STEP 1 of insert_block: the victim is valid and dirty
NeedsWriteback(victim) == victim.valid /\ victim.dirty

\* a lookup that searches way 0 only
MatchingWays_way0_only(c, set_index, tag) ==
    {i \in {0} :
        c.cache_sets[set_index][i].valid /\ c.cache_sets[set_index][i].tag = tag}

\* a lookup that compares the tag alone
MatchingWays_ignoring_valid(c, set_index, tag) ==
    {i \in 0..(c.associativity - 1) : c.cache_sets[set_index][i].tag = tag}

\* the ways of a set that hold the tag (the loop of access returns at the
\* first of them)
MatchingWays(c, set_index, tag) ==
    {i \in 0..(c.associativity - 1) :
        c.cache_sets[set_index][i].valid /\ c.cache_sets[set_index][i].tag = tag}

MinOf(S) == CHOOSE x \in S : \A y \in S : x <= y

\* every block indexed into the set next to its own
SetIndexOf_next(block_addr, num_sets) == (block_addr + 1) % num_sets

\* Cache::access, lines 124 and 125
SetIndexOf(block_addr, num_sets) == block_addr % num_sets

\* the tag taken with % in place of /
TagOf_mod(block_addr, num_sets) == block_addr % num_sets

TagOf(block_addr, num_sets) == block_addr \div num_sets

\* the byte address rebuilt without the set index
ReconstructAddress_no_set(tag, set_index, num_sets, block_size) ==
    (tag * num_sets) * block_size

\* insert_block, lines 161-162 and 180-181: (tag * num_sets + set_index) *
\* block_size
ReconstructAddress(tag, set_index, num_sets, block_size) ==
    (tag * num_sets + set_index) * block_size

\* a hit that also writes the block through to the sink
OnHit_write_through(h, lvl, set_index, way, is_write) ==
    LET c == h[lvl]
        hit_address ==
            (c.cache_sets[set_index][way].tag * c.num_sets + set_index)
                * c.block_size
        moved == [h EXCEPT
                    ![lvl].lru_lists[set_index] = LruAfterHit(@, way),
                    ![lvl].cache_sets[set_index][way] = HitBlock(@, is_write)]
    IN  IF is_write THEN handle_memory_write(moved, lvl, hit_address)
        ELSE moved

\* HIT (lines 131-140): update the recency order, mark dirty on a write
OnHit(h, lvl, set_index, way, is_write) ==
    [h EXCEPT
       ![lvl].lru_lists[set_index] = LruAfterHit(@, way),
       ![lvl].cache_sets[set_index][way] = HitBlock(@, is_write)]

RECURSIVE access(_, _, _, _)
RECURSIVE insert_block(_, _, _, _, _)

\* the fill issued to the next level as a write
FillRequest_as_write(h, lvl, requested_address) ==
    IF h[lvl].next_level # "nullptr"
    THEN access(h, h[lvl].next_level, requested_address, TRUE).h
    ELSE handle_memory_read(h, lvl, requested_address)

\* STEP 2 of insert_block (lines 178-189): the fill is a read
FillRequest(h, lvl, requested_address) ==
    IF h[lvl].next_level # "nullptr"
    THEN access(h, h[lvl].next_level, requested_address, FALSE).h
    ELSE handle_memory_read(h, lvl, requested_address)

\* the fill read issued before the victim is written back
FillThenWriteback(h, lvl, set_index, victim_way, requested_address) ==
    LET c          == h[lvl]
        victim     == c.cache_sets[set_index][victim_way]
        victim_address ==
            ReconstructAddress(victim.tag, set_index, c.num_sets, c.block_size)
        filled == FillRequest(h, lvl, requested_address)
        written ==
            IF NeedsWriteback(victim)
            THEN IF c.next_level # "nullptr"
                 THEN access(filled, c.next_level, victim_address, TRUE).h
                 ELSE handle_memory_write(filled, lvl, victim_address)
            ELSE filled
    IN  IF victim.valid
        THEN [ObserveEvict(written, lvl, victim_address, victim.dirty)
                EXCEPT ![lvl].cache_sets[set_index][victim_way] = CacheBlock]
        ELSE written

\* STEP 1 and STEP 2 of insert_block (lines 156-189)
WritebackThenFill(h, lvl, set_index, victim_way, requested_address) ==
    LET c          == h[lvl]
        victim     == c.cache_sets[set_index][victim_way]
        victim_address ==
            ReconstructAddress(victim.tag, set_index, c.num_sets, c.block_size)
        \* STEP 1: make space
        written ==
            IF NeedsWriteback(victim)
            THEN IF c.next_level # "nullptr"
                 THEN access(h, c.next_level, victim_address, TRUE).h
                 ELSE handle_memory_write(h, lvl, victim_address)
            ELSE h
        h1 ==
            IF victim.valid
            THEN [ObserveEvict(written, lvl, victim_address, victim.dirty)
                    EXCEPT ![lvl].cache_sets[set_index][victim_way] = CacheBlock]
            ELSE h
    \* STEP 2: bring in the requested block
    IN  FillRequest(h1, lvl, requested_address)

access(h, lvl, address, is_write) ==
    LET c == h[lvl] IN
    IF ~is_enabled(c) THEN [h |-> h, hit |-> FALSE]
    ELSE
      LET block_addr == address \div c.block_size
          set_index  == SetIndexOf(block_addr, c.num_sets)
          tag        == TagOf(block_addr, c.num_sets)
          ways       == MatchingWays(c, set_index, tag)
      IN  IF ways # {}
          THEN LET i  == MinOf(ways)
                   h1 == ObserveAccess(h, lvl, address, set_index, tag,
                                       is_write, TRUE)
               IN  [h |-> OnHit(h1, lvl, set_index, i, is_write),
                    hit |-> TRUE]
          ELSE [h |-> insert_block(
                        ObserveAccess(h, lvl, address, set_index, tag,
                                      is_write, FALSE),
                        lvl, set_index, tag, is_write),
                hit |-> FALSE]

insert_block(h, lvl, set_index, tag, is_write) ==
    LET c          == h[lvl]
        victim_way == get_lru_victim(c.lru_lists[set_index])
        requested_address ==
            ReconstructAddress(tag, set_index, c.num_sets, c.block_size)
        h2 == WritebackThenFill(h, lvl, set_index, victim_way,
                                requested_address)
        \* STEP 3 and STEP 4: install, move to the front
        h3 == ObserveInstall(h2, lvl, requested_address, set_index, tag,
                             is_write)
    IN  [h3 EXCEPT
           ![lvl].cache_sets[set_index][victim_way] = InstalledBlock(tag, is_write),
           ![lvl].lru_lists[set_index] = update_lru(@, victim_way)]

\* access_with_stats counting the access only when it hits
UpdateStats_hits_only(stats, is_write, hit) ==
    IF is_write
    THEN [stats EXCEPT !.writes = IF hit THEN @ + 1 ELSE @,
                       !.write_hits = IF hit THEN @ + 1 ELSE @,
                       !.write_misses = IF hit THEN @ ELSE @ + 1]
    ELSE [stats EXCEPT !.reads = IF hit THEN @ + 1 ELSE @,
                       !.read_hits = IF hit THEN @ + 1 ELSE @,
                       !.read_misses = IF hit THEN @ ELSE @ + 1]

\* the counters Cache::access_with_stats bumps
UpdateStats(stats, is_write, hit) ==
    IF is_write
    THEN [stats EXCEPT !.writes = @ + 1,
                       !.write_hits = IF hit THEN @ + 1 ELSE @,
                       !.write_misses = IF hit THEN @ ELSE @ + 1]
    ELSE [stats EXCEPT !.reads = @ + 1,
                       !.read_hits = IF hit THEN @ + 1 ELSE @,
                       !.read_misses = IF hit THEN @ ELSE @ + 1]

\* Cache::access_with_stats
access_with_stats(h, lvl, address, is_write) ==
    LET r == access(h, lvl, address, is_write)
        counted == [r.h EXCEPT ![lvl].stats = UpdateStats(@, is_write, r.hit)]
    IN  [h |-> ObserveTraceWrite(counted, lvl, address, is_write),
         hit |-> r.hit]

----------------------------------------------------------------------------
(* Cache::is_valid_configuration *)

RECURSIVE is_power_of_two(_)
is_power_of_two(n) ==
    IF n <= 0 THEN FALSE
    ELSE IF n = 1 THEN TRUE
    ELSE n % 2 = 0 /\ is_power_of_two(n \div 2)

is_valid_configuration(c) ==
    IF ~is_enabled(c) THEN TRUE
    ELSE /\ is_power_of_two(c.block_size)
         /\ is_power_of_two(c.num_sets)
         /\ ~(c.block_size <= 0 \/ c.size <= 0 \/ c.associativity <= 0)
         /\ ~(c.associativity > c.num_blocks)
         /\ c.size % c.block_size = 0
         /\ c.num_blocks % c.associativity = 0

----------------------------------------------------------------------------
(* parse_trace_line: the two tokens of the line, then std::stoul base 16  *)

HexChars == <<"0", "1", "2", "3", "4", "5", "6", "7",
              "8", "9", "a", "b", "c", "d", "e", "f">>
UpperHexChars == <<"A", "B", "C", "D", "E", "F">>

\* the value of a digit in base 16, -1 for any other character
HexDigitValue(ch) ==
    IF \E i \in 1..16 : HexChars[i] = ch
    THEN (CHOOSE i \in 1..16 : HexChars[i] = ch) - 1
    ELSE IF \E i \in 1..6 : UpperHexChars[i] = ch
    THEN (CHOOSE i \in 1..6 : UpperHexChars[i] = ch) + 9
    ELSE -1

\* operator>> skips leading white space ...
RECURSIVE SkipSpaces(_)
SkipSpaces(s) ==
    IF s # <<>> /\ Head(s) = " " THEN SkipSpaces(Tail(s)) ELSE s

\* ... and reads up to the next white space
RECURSIVE TokenLen(_)
TokenLen(s) ==
    IF s = <<>> \/ Head(s) = " " THEN 0 ELSE 1 + TokenLen(Tail(s))

ExtractToken(s) ==
    LET t == SkipSpaces(s)
        n == TokenLen(t)
    IN  [ok |-> n > 0, tok |-> SubSeq(t, 1, n), rest |-> SubSeq(t, n + 1, Len(t))]

\* the length of the longest prefix of hexadecimal digits
RECURSIVE DigitRun(_)
DigitRun(s) ==
    IF s = <<>> \/ HexDigitValue(Head(s)) < 0 THEN 0 ELSE 1 + DigitRun(Tail(s))

RECURSIVE StripZeros(_)
StripZeros(s) ==
    IF s # <<>> /\ Head(s) = "0" THEN StripZeros(Tail(s)) ELSE s

RECURSIVE HexValue(_)
HexValue(digits) ==
    IF digits = <<>> THEN 0
    ELSE HexValue(SubSeq(digits, 1, Len(digits) - 1)) * 16
         + HexDigitValue(digits[Len(digits)])

\* hexadecimal digits of unsigned long, and of the 32-bit limit 0xFFFFFFFF
ULongHexDigits == 16
AddressHexDigits == 8

\* std::stoul(str, nullptr, 16) followed by the test address > 0xFFFFFFFF:
\* an optional sign, an optional 0x prefix, then the longest run of digits;
\* what follows the digits is ignored.  ok is FALSE where stoul throws or
\* the value is above 0xFFFFFFFF (a negated value wraps to 2^64 - v).
stoul_32(str) ==
    LET negative == str # <<>> /\ Head(str) = "-"
        signed   == str # <<>> /\ Head(str) \in {"-", "+"}
        s1       == IF signed THEN Tail(str) ELSE str
        prefixed == /\ Len(s1) >= 3
                    /\ s1[1] = "0"
                    /\ s1[2] \in {"x", "X"}
                    /\ HexDigitValue(s1[3]) >= 0
        s2       == IF prefixed THEN SubSeq(s1, 3, Len(s1)) ELSE s1
        n        == DigitRun(s2)
        digits   == StripZeros(SubSeq(s2, 1, n))
    IN  IF n = 0 THEN [ok |-> FALSE, value |-> 0]                   \* invalid_argument
        ELSE IF Len(digits) > ULongHexDigits THEN [ok |-> FALSE, value |-> 0]   \* out_of_range
        ELSE IF Len(digits) > AddressHexDigits THEN [ok |-> FALSE, value |-> 0] \* > 0xFFFFFFFF
        ELSE IF negative /\ digits # <<>> THEN [ok |-> FALSE, value |-> 0]     \* wraps above 2^32
        ELSE [ok |-> TRUE, value |-> HexValue(digits)]

parse_trace_line(line) ==
    LET t1 == ExtractToken(line)
        t2 == ExtractToken(t1.rest)
        a  == stoul_32(t2.tok)
    IN  IF ~(t1.ok /\ t2.ok) THEN [ok |-> FALSE, operation |-> "r", address |-> 0]
        ELSE IF Len(t1.tok) # 1 \/ (t1.tok[1] # "r" /\ t1.tok[1] # "w")
             THEN [ok |-> FALSE, operation |-> "r", address |-> 0]
        ELSE IF ~a.ok THEN [ok |-> FALSE, operation |-> t1.tok[1], address |-> 0]
        ELSE [ok |-> TRUE, operation |-> t1.tok[1], address |-> a.value]

----------------------------------------------------------------------------
(* The trace lines of the model *)

\* an address as the trace format writes it: lowercase, no leading zeros
RECURSIVE ToHex(_)
ToHex(a) ==
    IF a < 16 THEN <<HexChars[a + 1]>>
    ELSE Append(ToHex(a \div 16), HexChars[(a % 16) + 1])

ReferenceLine(op, a) == <<op, " ">> \o ToHex(a)

\* the format section 6 of the specification gives for a trace entry:
\* <op> <hex_address>, op r or w, 1 to 8 lowercase hexadecimal digits
WellFormedLine(line) ==
    /\ Len(line) >= 3
    /\ Len(line) <= 2 + AddressHexDigits
    /\ line[1] \in {"r", "w"}
    /\ line[2] = " "
    /\ \A i \in 3..Len(line) : \E k \in 1..16 : HexChars[k] = line[i]

BlankLine       == <<>>
CommentLine     == <<"#", " ", "r", " ", "0">>
BadOpLine       == <<"x", " ", "0">>
NoAddressLine   == <<"w">>
NotHexLine      == <<"w", " ", "g">>
TrailingLine    == <<"w", " ", "1", "g">>
TooWideLine     == <<"r", " ", "1", "0", "0", "0", "0", "0", "0", "0", "0">>

OtherLines == {BlankLine, CommentLine, BadOpLine, NoAddressLine, NotHexLine,
               TrailingLine, TooWideLine}

TraceLines ==
    {ReferenceLine(op, a) : op \in {"r", "w"}, a \in 0..MaxAddr} \cup OtherLines

----------------------------------------------------------------------------
(* main: the caches are built from the arguments and checked *)

Config(bs, l1s, l1a, l2s, l2a) ==
    [blocksize |-> bs, l1_size |-> l1s, l1_assoc |-> l1a,
     l2_size |-> l2s, l2_assoc |-> l2a]

Configs ==
    { Config(2, 4, 2, 0, 0),     \* one set of two ways, no L2
      Config(2, 4, 1, 0, 0),     \* two sets of one way, no L2
      Config(2, 2, 1, 4, 2),     \* L1 one line, L2 one set of two ways
      Config(2, 4, 2, 4, 2),     \* L1 and L2 one set of two ways
      Config(2, 2, 1, 4, 1) }    \* L1 one line, L2 two sets of one way

\* main, lines 1088-1098
BuildL2(c) == Cache(c.blocksize, c.l2_size, c.l2_assoc, "nullptr")
BuildL1(c) ==
    LET l1 == Cache(c.blocksize, c.l1_size, c.l1_assoc, "nullptr")
    IN  IF is_enabled(BuildL2(c)) THEN set_next_level(l1, "L2") ELSE l1

\* main goes on to the trace (lines 1107-1115)
Accepted(c) ==
    /\ is_valid_configuration(BuildL1(c))
    /\ is_valid_configuration(BuildL2(c))

Init ==
    /\ cfg \in {c \in Configs : Accepted(c) /\ c.l1_size > 0}
    /\ l1_cache = BuildL1(cfg)
    /\ l2_cache = BuildL2(cfg)
    /\ mem = [reads |-> 0, writes |-> 0]
    /\ line_number = 0
    /\ total_accesses = 0
    /\ well_formed = 0
    /\ step_log = <<>>
    /\ obs = [L1 |-> NoObs(l1_cache), L2 |-> NoObs(l2_cache)]
    /\ pc = "trace"
    /\ outputs = <<>>
    /\ trace_file = <<>>
    /\ larger = <<>>

----------------------------------------------------------------------------
(* process_trace_file: one iteration of the getline loop *)

Hierarchy ==
    [L1 |-> l1_cache, L2 |-> l2_cache, mem |-> mem, log |-> <<>>, obs |-> obs]

\* parse_trace_line tabulated over the lines the traces are made of
Parsed == [line \in TraceLines |-> parse_trace_line(line)]

ParsedLine(line) ==
    IF line \in TraceLines THEN Parsed[line] ELSE parse_trace_line(line)

\* the line is skipped: empty, a comment, or refused by parse_trace_line
Skipped(line) ==
    \/ line = <<>>
    \/ line[1] = "#"
    \/ ~ParsedLine(line).ok

ProcessLine(line) ==
    /\ pc = "trace"
    /\ line_number < MaxLines
    /\ line_number' = line_number + 1
    /\ well_formed' = IF WellFormedLine(line) THEN well_formed + 1 ELSE well_formed
    /\ UNCHANGED <<cfg, pc, outputs, trace_file, larger>>
    /\ IF Skipped(line)
       THEN /\ step_log' = <<>>
            /\ UNCHANGED <<l1_cache, l2_cache, mem, total_accesses, obs>>
       ELSE LET entry    == ParsedLine(line)
                is_write == (entry.operation = "w")
                r        == access_with_stats(Hierarchy, "L1", entry.address,
                                              is_write)
            IN  /\ l1_cache' = r.h.L1
                /\ l2_cache' = r.h.L2
                /\ mem' = r.h.mem
                /\ obs' = r.h.obs
                /\ step_log' = r.h.log
                /\ total_accesses' = total_accesses + 1

Next == \E line \in TraceLines : ProcessLine(line)

Spec == Init /\ [][Next]_vars

----------------------------------------------------------------------------
(* A trace file given in advance: the configuration of scenarios S4 and S5 *)

\* lines of a scenario trace file
ScenarioLines == 3

\* BLOCKSIZE 16, L1 32 bytes 2-way, L2 64 bytes 2-way
ScenarioConfig == Config(16, 32, 2, 64, 2)

\* r and w of the addresses 0, 10, 20, 40, 80 (hexadecimal)
ScenarioLineSet ==
    {ReferenceLine(op, a) : op \in {"r", "w"}, a \in {0, 16, 32, 64, 128}}

ScenarioInit ==
    /\ cfg = ScenarioConfig
    /\ Accepted(cfg)
    /\ trace_file \in [1..ScenarioLines -> ScenarioLineSet]
    /\ l1_cache = BuildL1(cfg)
    /\ l2_cache = BuildL2(cfg)
    /\ mem = [reads |-> 0, writes |-> 0]
    /\ line_number = 0
    /\ total_accesses = 0
    /\ well_formed = 0
    /\ step_log = <<>>
    /\ obs = [L1 |-> NoObs(l1_cache), L2 |-> NoObs(l2_cache)]
    /\ pc = "trace"
    /\ outputs = <<>>
    /\ larger = <<>>

\* getline returns the next line of the file
ReadTraceFile ==
    /\ line_number < Len(trace_file)
    /\ ProcessLine(trace_file[line_number + 1])

SpecScenario == ScenarioInit /\ [][ReadTraceFile]_vars

----------------------------------------------------------------------------
(* A trace of well-formed lines: each iteration applies a parsed reference *)

\* references applied
MaxRefs == 4

\* process_trace_file, lines 931-937, for a line that parse_trace_line has
\* turned into the entry (operation, address)
Reference(address, is_write) ==
    /\ pc = "trace"
    /\ total_accesses < MaxRefs
    /\ LET r == access_with_stats(Hierarchy, "L1", address, is_write)
       IN  /\ l1_cache' = r.h.L1
           /\ l2_cache' = r.h.L2
           /\ mem' = r.h.mem
           /\ obs' = r.h.obs
           /\ step_log' = r.h.log
    /\ total_accesses' = total_accesses + 1
    /\ line_number' = line_number + 1
    /\ well_formed' = well_formed + 1
    /\ UNCHANGED <<cfg, pc, outputs, trace_file, larger>>

NextReference ==
    \E address \in 0..MaxAddr : \E is_write \in BOOLEAN :
        Reference(address, is_write)

\* the configurations of Configs and a set of four ways
RefConfigs == Configs \cup {Config(1, 4, 4, 0, 0)}

RefsInit ==
    /\ cfg \in {c \in RefConfigs : Accepted(c) /\ c.l1_size > 0}
    /\ l1_cache = BuildL1(cfg)
    /\ l2_cache = BuildL2(cfg)
    /\ mem = [reads |-> 0, writes |-> 0]
    /\ line_number = 0
    /\ total_accesses = 0
    /\ well_formed = 0
    /\ step_log = <<>>
    /\ obs = [L1 |-> NoObs(l1_cache), L2 |-> NoObs(l2_cache)]
    /\ pc = "trace"
    /\ outputs = <<>>
    /\ trace_file = <<>>
    /\ larger = <<>>

SpecRefs == RefsInit /\ [][NextReference]_vars

----------------------------------------------------------------------------
(* References over several geometries, with low and high addresses *)

\* references applied to a geometry
WideRefs == 2
\* addresses 0..MaxOffset and 0x10000000..0x10000000 + MaxOffset
MaxOffset == 5

HighBase == 16 ^ 7

WideAddresses ==
    (0..MaxOffset) \cup {HighBase + k : k \in 0..MaxOffset}

\* direct-mapped L1 of 1, 2 or 4 sets with blocks of 1, 4 or 16 bytes
GeometryConfigs ==
    {Config(bs, bs * sets, 1, 0, 0) : bs \in {1, 4, 16}, sets \in {1, 2, 4}}

WideInit ==
    /\ cfg \in {c \in GeometryConfigs : Accepted(c)}
    /\ l1_cache = BuildL1(cfg)
    /\ l2_cache = BuildL2(cfg)
    /\ mem = [reads |-> 0, writes |-> 0]
    /\ line_number = 0
    /\ total_accesses = 0
    /\ well_formed = 0
    /\ step_log = <<>>
    /\ obs = [L1 |-> NoObs(l1_cache), L2 |-> NoObs(l2_cache)]
    /\ pc = "trace"
    /\ outputs = <<>>
    /\ trace_file = <<>>
    /\ larger = <<>>

WideReference ==
    /\ total_accesses < WideRefs
    /\ \E address \in WideAddresses : \E is_write \in BOOLEAN :
          Reference(address, is_write)

SpecWide == WideInit /\ [][WideReference]_vars

----------------------------------------------------------------------------
(* Two runs on one trace file: a repeated sequential sweep *)

\* blocks in a sweep, and times the sweep is repeated
MaxSweep == 5
SweepRounds == 3

\* the loop body of process_trace_file applied to a hierarchy
AfterLine(h, line) ==
    IF Skipped(line) THEN [h EXCEPT !.log = <<>>]
    ELSE LET entry == parse_trace_line(line)
         IN  access_with_stats([h EXCEPT !.log = <<>>], "L1", entry.address,
                               entry.operation = "w").h

\* n consecutive blocks from address 0, swept SweepRounds times
SweepTrace(op, n, bs) ==
    [i \in 1..(n * SweepRounds) |-> ReferenceLine(op, ((i - 1) % n) * bs)]

\* L1 sizes with the same block size and associativity: 1, 2 and 4 sets
SweepSizes(bs, assoc) == {bs * assoc * sets : sets \in {1, 2, 4}}

NewRun(c) ==
    [L1 |-> BuildL1(c), L2 |-> BuildL2(c), mem |-> [reads |-> 0, writes |-> 0],
     log |-> <<>>,
     obs |-> [L1 |-> NoObs(BuildL1(c)), L2 |-> NoObs(BuildL2(c))]]

SweepInit ==
    \E assoc \in {1, 2} : \E small, large \in SweepSizes(2, assoc) :
    \E n \in 1..MaxSweep : \E op \in {"r", "w"} :
        /\ small < large
        /\ Accepted(Config(2, small, assoc, 0, 0))
        /\ Accepted(Config(2, large, assoc, 0, 0))
        /\ cfg = Config(2, small, assoc, 0, 0)
        /\ l1_cache = BuildL1(cfg)
        /\ l2_cache = BuildL2(cfg)
        /\ larger = NewRun(Config(2, large, assoc, 0, 0))
        /\ trace_file = SweepTrace(op, n, 2)
        /\ mem = [reads |-> 0, writes |-> 0]
        /\ line_number = 0
        /\ total_accesses = 0
        /\ well_formed = 0
        /\ step_log = <<>>
        /\ obs = [L1 |-> NoObs(l1_cache), L2 |-> NoObs(l2_cache)]
        /\ pc = "trace"
        /\ outputs = <<>>

\* both runs read the next line of the file
SweepStep ==
    /\ pc = "trace"
    /\ line_number < Len(trace_file)
    /\ LET line == trace_file[line_number + 1]
           a    == AfterLine(Hierarchy, line)
       IN  /\ l1_cache' = a.L1
           /\ l2_cache' = a.L2
           /\ mem' = a.mem
           /\ obs' = a.obs
           /\ step_log' = a.log
           /\ larger' = AfterLine(larger, line)
           /\ total_accesses' =
                  IF Skipped(line) THEN total_accesses ELSE total_accesses + 1
           /\ well_formed' =
                  IF WellFormedLine(line) THEN well_formed + 1 ELSE well_formed
    /\ line_number' = line_number + 1
    /\ UNCHANGED <<cfg, pc, outputs, trace_file>>

SpecSweep == SweepInit /\ [][SweepStep]_vars

----------------------------------------------------------------------------
(* main from the command line to the results block *)

\* lines read from the trace file in a run of main
MainLines == 2

MainConfigs ==
    { Config(2, 4, 2, 0, 0),      \* L1 only
      Config(2, 2, 1, 4, 2),      \* L1 and L2
      Config(2, 0, 0, 4, 2),      \* L1 disabled, L2 enabled
      Config(2, 0, 0, 0, 0),      \* both disabled
      Config(3, 6, 1, 0, 0),      \* block size not a power of two
      Config(2, 5, 1, 0, 0),      \* size not divisible by the block size
      Config(2, 4, 4, 0, 0),      \* associativity above the number of blocks
      Config(2, 6, 1, 0, 0),      \* three sets
      Config(2, 2, 1, 6, 1),      \* L2 with three sets
      Config(0, 4, 1, 0, 0),      \* block size 0
      Config(2, 4, 0, 0, 0),      \* associativity 0
      Config(2, 2, 1, 4, 0),      \* L2 associativity 0
      Config(-2, 4, 1, 0, 0),     \* negative block size
      Config(2, 4, -1, 0, 0) }    \* negative associativity

\* Cache::Cache, lines 46 and 47: int division by block_size and by
\* associativity, taken before any check of the arguments
DividesByZero(bs, s, assoc) ==
    s > 0 /\ (bs = 0 \/ (bs # 0 /\ assoc = 0))

\* Cache::initialize_cache: resize(num_sets, vector<CacheBlock>(associativity))
\* with a negative count throws std::length_error, which nothing catches
ThrowsLengthError(bs, s, assoc) ==
    s > 0 /\ (assoc < 0 \/ IntDiv(IntDiv(s, bs), assoc) < 0)

\* how the two constructor calls of main end.  The division by zero is
\* undefined: it traps (SIGFPE) or yields a quotient and goes on.
ConstructOutcomes(c) ==
    LET goes_on ==
            IF \/ ThrowsLengthError(c.blocksize, c.l2_size, c.l2_assoc)
               \/ ThrowsLengthError(c.blocksize, c.l1_size, c.l1_assoc)
            THEN "abort" ELSE "validate"
    IN  IF \/ DividesByZero(c.blocksize, c.l2_size, c.l2_assoc)
           \/ DividesByZero(c.blocksize, c.l1_size, c.l1_assoc)
        THEN {"sigfpe", goes_on}
        ELSE {goes_on}

\* Cache::get_config_error
get_config_error(c) ==
    IF ~is_enabled(c) THEN ""
    ELSE IF c.block_size <= 0 THEN "Block size must be positive"
    ELSE IF c.size <= 0 THEN "Cache size must be positive"
    ELSE IF c.associativity <= 0 THEN "Associativity must be positive"
    ELSE IF ~is_power_of_two(c.block_size)
         THEN "Block size must be a power of 2"
    ELSE IF c.size % c.block_size # 0
         THEN "Cache size must be divisible by block size"
    ELSE IF c.num_blocks % c.associativity # 0
         THEN "Number of blocks must be divisible by associativity"
    ELSE IF ~is_power_of_two(c.num_sets)
         THEN "Number of sets must be a power of 2"
    ELSE IF c.associativity > c.num_blocks
         THEN "Associativity cannot exceed total number of blocks"
    ELSE ""

MainInit ==
    /\ cfg \in MainConfigs
    /\ pc \in ConstructOutcomes(cfg)
    /\ l1_cache = BuildL1(cfg)
    /\ l2_cache = BuildL2(cfg)
    /\ mem = [reads |-> 0, writes |-> 0]
    /\ line_number = 0
    /\ total_accesses = 0
    /\ well_formed = 0
    /\ step_log = <<>>
    /\ obs = [L1 |-> NoObs(l1_cache), L2 |-> NoObs(l2_cache)]
    /\ outputs = <<>>
    /\ trace_file = <<>>
    /\ larger = <<>>

\* main, lines 1107-1115 and the configuration block that follows
Validate ==
    /\ pc = "validate"
    /\ IF ~is_valid_configuration(l1_cache)
       THEN /\ pc' = "exit1"
            /\ outputs' = Append(outputs,
                   [stream |-> "cerr", kind |-> "error", level |-> "L1",
                    text |-> get_config_error(l1_cache)])
       ELSE IF ~is_valid_configuration(l2_cache)
       THEN /\ pc' = "exit1"
            /\ outputs' = Append(outputs,
                   [stream |-> "cerr", kind |-> "error", level |-> "L2",
                    text |-> get_config_error(l2_cache)])
       ELSE /\ pc' = "trace"
            /\ outputs' = Append(outputs,
                   [stream |-> "cout", kind |-> "configuration"])
    /\ UNCHANGED <<cfg, l1_cache, l2_cache, mem, line_number, total_accesses,
                   well_formed, step_log, obs, trace_file, larger>>

\* one iteration of the getline loop
ReadLine ==
    /\ line_number < MainLines
    /\ \E line \in TraceLines : ProcessLine(line)

\* getline fails: process_trace_file prints the total and returns true
EndOfTrace ==
    /\ pc = "trace"
    /\ pc' = "contents_l1"
    /\ outputs' = Append(outputs,
           [stream |-> "cout", kind |-> "complete", total |-> total_accesses])
    /\ UNCHANGED <<cfg, l1_cache, l2_cache, mem, line_number, total_accesses,
                   well_formed, step_log, obs, trace_file, larger>>

\* the valid blocks of a set, most recently used first: tag in 8
\* hexadecimal digits, " D" when dirty
RECURSIVE PadLeft(_, _)
PadLeft(digits, width) ==
    IF Len(digits) >= width THEN digits ELSE PadLeft(<<"0">> \o digits, width)

RECURSIVE ValidBlocks(_, _, _)
ValidBlocks(c, set, lru_list) ==
    IF lru_list = <<>> THEN <<>>
    ELSE LET block == c.cache_sets[set][Head(lru_list)]
             rest  == ValidBlocks(c, set, Tail(lru_list))
         IN  IF block.valid
             THEN <<[tag |-> PadLeft(ToHex(block.tag), AddressHexDigits),
                     dirty |-> block.dirty]>> \o rest
             ELSE rest

RECURSIVE SetLines(_, _)
SetLines(c, set) ==
    IF set >= c.num_sets THEN <<>>
    ELSE LET blocks == ValidBlocks(c, set, c.lru_lists[set])
         IN  (IF blocks = <<>> THEN <<>>
              ELSE <<[set |-> set, blocks |-> blocks]>>)
             \o SetLines(c, set + 1)

\* a dump that marks every line it prints clean
print_cache_contents_cleaning(c, cache_name) ==
    [out   |-> [stream |-> "cout", kind |-> "contents", level |-> cache_name,
                sets |-> SetLines(c, 0)],
     cache |-> [c EXCEPT !.cache_sets =
                   [set \in DOMAIN @ |-> [way \in DOMAIN @[set] |->
                       [@[set][way] EXCEPT !.dirty = FALSE]]]]]

\* Cache::print_cache_contents: what it prints (sets = <<>> is "Empty"), and
\* the cache it leaves
print_cache_contents(c, cache_name) ==
    [out   |-> [stream |-> "cout", kind |-> "contents", level |-> cache_name,
                sets |-> SetLines(c, 0)],
     cache |-> c]

\* main, line 1152
PrintL1Contents ==
    /\ pc = "contents_l1"
    /\ LET r == print_cache_contents(l1_cache, "L1")
       IN  /\ outputs' = Append(outputs, r.out)
           /\ l1_cache' = r.cache
    /\ pc' = "contents_l2"
    /\ UNCHANGED <<cfg, l2_cache, mem, line_number, total_accesses,
                   well_formed, step_log, obs, trace_file, larger>>

\* main, lines 1153-1155
PrintL2Contents ==
    /\ pc = "contents_l2"
    /\ IF is_enabled(l2_cache)
       THEN LET r == print_cache_contents(l2_cache, "L2")
            IN  /\ outputs' = Append(outputs, r.out)
                /\ l2_cache' = r.cache
       ELSE UNCHANGED <<outputs, l2_cache>>
    /\ pc' = "results"
    /\ UNCHANGED <<cfg, l1_cache, mem, line_number, total_accesses,
                   well_formed, step_log, obs, trace_file, larger>>

\* print_simulation_results: the counters of items a-d, f, h, i, l, m, o, q
simulation_results(l1, l2) ==
    [stream |-> "cout", kind |-> "results",
     l1 |-> l1.stats,
     l2 |-> IF is_enabled(l2) THEN l2.stats ELSE CacheStats,
     memory_traffic |->
        IF is_enabled(l2)
        THEN l2.stats.read_misses + l2.stats.write_misses + l2.stats.writebacks
        ELSE l1.stats.read_misses + l1.stats.write_misses + l1.stats.writebacks]

\* main, line 1158; the performance report that follows is not modelled
PrintResults ==
    /\ pc = "results"
    /\ outputs' = Append(outputs, simulation_results(l1_cache, l2_cache))
    /\ pc' = "report"
    /\ UNCHANGED <<cfg, l1_cache, l2_cache, mem, line_number, total_accesses,
                   well_formed, step_log, obs, trace_file, larger>>

MainNext ==
    \/ Validate
    \/ ReadLine
    \/ EndOfTrace
    \/ PrintL1Contents
    \/ PrintL2Contents
    \/ PrintResults

SpecMain == MainInit /\ [][MainNext]_vars

----------------------------------------------------------------------------
(* print_simulation_results *)

CacheOf(lvl) == IF lvl = "L1" THEN l1_cache ELSE l2_cache

EnabledLevels == {lvl \in Levels : is_enabled(CacheOf(lvl))}

Misses(stats) == stats.read_misses + stats.write_misses

\* item q, "total memory traffic"
memory_traffic ==
    IF is_enabled(l2_cache)
    THEN Misses(l2_cache.stats) + l2_cache.stats.writebacks
    ELSE Misses(l1_cache.stats) + l1_cache.stats.writebacks

SinkOperations == mem.reads + mem.writes

SetsOf(c) == 0..(c.num_sets - 1)
WaysOf(c) == 0..(c.associativity - 1)

AllValid(c, set) == \A way \in WaysOf(c) : c.cache_sets[set][way].valid

Present(c, set, tag) ==
    \E way \in WaysOf(c) :
        c.cache_sets[set][way].valid /\ c.cache_sets[set][way].tag = tag

LoggedKinds(lvl, kind) ==
    {i \in 1..Len(step_log) : step_log[i].lvl = lvl /\ step_log[i].kind = kind}

----------------------------------------------------------------------------
(* The claims *)

\* C1: every access an enabled level receives, the fill reads and the
\* writeback writes that L1 issues to L2 included, is counted in that
\* level's reads or writes and, when it misses, in its read_misses or
\* write_misses; so L2.reads is the number of L1 misses and L2.writes the
\* number of dirty lines L1 evicted.
C1_EveryAccessCounted ==
    /\ \A lvl \in EnabledLevels :
          /\ CacheOf(lvl).stats.reads = obs[lvl].reads
          /\ CacheOf(lvl).stats.writes = obs[lvl].writes
          /\ CacheOf(lvl).stats.read_misses = obs[lvl].read_misses
          /\ CacheOf(lvl).stats.write_misses = obs[lvl].write_misses
    /\ is_enabled(l2_cache) =>
          /\ l2_cache.stats.reads = obs.L1.read_misses + obs.L1.write_misses
          /\ l2_cache.stats.writes = obs.L1.dirty_evictions

\* C2: in every configuration the reported total memory traffic, read_misses
\* + write_misses + writebacks of the last enabled level, is the number of
\* reads and writes the memory sink has observed.
C2_TrafficIsSinkOperations == memory_traffic = SinkOperations

\* C3: without L2, L1.read_misses + L1.write_misses + L1.writebacks is the
\* number of sink operations: one sink read per L1 miss and one sink write
\* per dirty line L1 evicted.
C3_TrafficWithoutL2 ==
    ~is_enabled(l2_cache) =>
        /\ Misses(l1_cache.stats) + l1_cache.stats.writebacks = SinkOperations
        /\ mem.reads = obs.L1.read_misses + obs.L1.write_misses
        /\ mem.reads = Misses(l1_cache.stats)
        /\ mem.writes = obs.L1.dirty_evictions

\* C3: a run without L2 that has hit, missed and written a dirty line back
C3_Witness ==
    /\ ~is_enabled(l2_cache)
    /\ l1_cache.stats.writebacks >= 1
    /\ l1_cache.stats.read_misses >= 1
    /\ l1_cache.stats.write_misses >= 1
    /\ mem.writes >= 1

\* C4: L1.reads + L1.writes is the number of well-formed trace entries read
\* so far: a well-formed entry is one access of L1, and a blank, comment or
\* malformed line changes no counter.
C4_TopLevelCountsWellFormed ==
    l1_cache.stats.reads + l1_cache.stats.writes = well_formed

\* C5: writebacks of a level counts the dirty victims it evicted to the
\* memory sink and nothing else: a level with a next level keeps 0 and its
\* dirty victims are the writes the next level receives; a clean or invalid
\* victim causes no write downstream.
C5_WritebacksAreSinkEvictions ==
    \A lvl \in EnabledLevels :
        LET c == CacheOf(lvl) IN
        IF c.next_level = "nullptr"
        THEN /\ c.stats.writebacks = obs[lvl].dirty_evictions
             /\ mem.writes = obs[lvl].dirty_evictions
        ELSE /\ c.stats.writebacks = 0
             /\ obs[c.next_level].writes = obs[lvl].dirty_evictions

\* C5: L1 has evicted a dirty line into L2, L2 has evicted a dirty line to
\* the sink, and the last reference evicted a clean line
C5_Witness ==
    /\ is_enabled(l2_cache)
    /\ obs.L1.dirty_evictions >= 1
    /\ l2_cache.stats.writebacks >= 1
    /\ \E i \in LoggedKinds("L1", "evict") : ~step_log[i].dirty

\* C6: read_misses <= reads and write_misses <= writes at L1 and at L2.
C6_MissesWithinAccesses ==
    \A lvl \in Levels :
        /\ CacheOf(lvl).stats.read_misses <= CacheOf(lvl).stats.reads
        /\ CacheOf(lvl).stats.write_misses <= CacheOf(lvl).stats.writes

\* C6: reads and writes that missed and reads and writes that hit
C6_Witness ==
    /\ l1_cache.stats.read_misses >= 1
    /\ l1_cache.stats.read_misses < l1_cache.stats.reads
    /\ l1_cache.stats.write_misses >= 1
    /\ l1_cache.stats.write_misses < l1_cache.stats.writes

\* C7: at every level, the recency order of every set has exactly A entries
\* and holds every way index 0 .. A-1 exactly once.
C7_RecencyIsPermutation ==
    \A lvl \in EnabledLevels :
        LET c == CacheOf(lvl) IN
        \A set \in SetsOf(c) :
            /\ Len(c.lru_lists[set]) = c.associativity
            /\ \A way \in WaysOf(c) :
                  Cardinality({i \in 1..Len(c.lru_lists[set]) :
                                  c.lru_lists[set][i] = way}) = 1

\* C7: both levels have reordered a set of two ways
C7_Witness ==
    /\ is_enabled(l2_cache)
    /\ \E set \in SetsOf(l1_cache) : l1_cache.lru_lists[set] = <<1, 0>>
    /\ \E set \in SetsOf(l2_cache) : l2_cache.lru_lists[set] = <<1, 0>>
    /\ total_accesses >= 3

\* C8: at every level no line is dirty and invalid.
C8_DirtyImpliesValid ==
    \A lvl \in EnabledLevels :
        LET c == CacheOf(lvl) IN
        \A set \in SetsOf(c) : \A way \in WaysOf(c) :
            c.cache_sets[set][way].dirty => c.cache_sets[set][way].valid

\* C8: a dirty line in L1 and a dirty line in L2, after an eviction
C8_Witness ==
    /\ is_enabled(l2_cache)
    /\ \E set \in SetsOf(l1_cache) : \E way \in WaysOf(l1_cache) :
          l1_cache.cache_sets[set][way].dirty
    /\ \E set \in SetsOf(l2_cache) : \E way \in WaysOf(l2_cache) :
          l2_cache.cache_sets[set][way].dirty
    /\ obs.L1.dirty_evictions >= 1

\* C10: in a set whose A ways are all valid, a block that was made most
\* recently used with fewer than A accesses to the set since (the blocks of
\* the last A accesses to the set) is still valid in the set.
C10_RecentBlocksPresent ==
    \A lvl \in EnabledLevels :
        LET c == CacheOf(lvl) IN
        \A set \in SetsOf(c) :
            AllValid(c, set) =>
                \A i \in 1..Len(obs[lvl].recent[set]) :
                    Present(c, set, obs[lvl].recent[set][i])

\* C10: a full set of two ways whose last reference evicted a line, the
\* last two accesses naming different blocks
C10_Witness ==
    /\ l1_cache.associativity = 2
    /\ \E set \in SetsOf(l1_cache) :
          /\ AllValid(l1_cache, set)
          /\ Len(obs.L1.recent[set]) = 2
          /\ obs.L1.recent[set][1] # obs.L1.recent[set][2]
    /\ LoggedKinds("L1", "evict") # {}

\* C11: on a trace that repeats a sequential sweep over block addresses,
\* of two L1-only caches with the same block size and associativity the one
\* with the larger size (more sets) never has more misses.
C11_LargerNeverMissesMore ==
    Misses(larger.L1.stats) <= Misses(l1_cache.stats)

\* C11: after the second round has begun, the smaller cache has missed on a
\* block it had held and the larger one has not
C11_Witness ==
    /\ line_number > Len(trace_file) \div SweepRounds
    /\ Misses(larger.L1.stats) < Misses(l1_cache.stats)
    /\ larger.L1.stats.read_hits + larger.L1.stats.write_hits >= 1
    /\ obs.L1.dirty_evictions >= 1

\* C12: at every level the number of distinct blocks (set index, tag) ever
\* installed in the level is at most its read_misses + write_misses.
C12_InstalledWithinMisses ==
    \A lvl \in EnabledLevels :
        Cardinality(obs[lvl].installed) <= Misses(CacheOf(lvl).stats)

S5Trace == <<ReferenceLine("w", 0), ReferenceLine("w", 16),
             ReferenceLine("w", 32)>>

S4Trace == <<ReferenceLine("r", 0), ReferenceLine("r", 64),
             ReferenceLine("r", 128)>>

Logged(kind, lvl, addr) ==
    {i \in LoggedKinds(lvl, kind) : step_log[i].addr = addr}

\* C13: scenario S5 (B=16, L1 32/2, L2 64/2, trace w 0, w 10, w 20): the
\* third access makes L1 evict the dirty block of address 0, L2 receives it
\* as a write that misses in L2 and installs it dirty; finally L1 writes=3,
\* write_misses=3, writebacks=0 and L2 writes=1, write_misses=1, reads=3,
\* read_misses=3, writebacks=0.
C13_ScenarioS5 ==
    (trace_file = S5Trace /\ line_number = Len(S5Trace)) =>
        /\ \E i \in Logged("evict", "L1", 0) : step_log[i].dirty
        /\ \E i \in Logged("miss", "L2", 0) : step_log[i].is_write
        /\ \E i \in Logged("install", "L2", 0) : step_log[i].dirty
        /\ l1_cache.stats.writes = 3
        /\ l1_cache.stats.write_misses = 3
        /\ l1_cache.stats.writebacks = 0
        /\ l2_cache.stats.writes = 1
        /\ l2_cache.stats.write_misses = 1
        /\ l2_cache.stats.reads = 3
        /\ l2_cache.stats.read_misses = 3
        /\ l2_cache.stats.writebacks = 0

\* C14: scenario S4 (B=16, L1 32/2, L2 64/2, trace r 0, r 40, r 80): L1 and
\* L2 have one set of two ways each; every reference misses in L1 and in L2
\* and makes one sink read; r 80 evicts the clean block of address 0 from
\* L1 and from L2 with no writeback; finally L1 reads=3, read_misses=3,
\* writebacks=0, L2 reads=3, read_misses=3, writebacks=0, traffic 3.
C14_ScenarioS4 ==
    (trace_file = S4Trace /\ line_number = Len(S4Trace)) =>
        /\ l1_cache.num_sets = 1 /\ l1_cache.associativity = 2
        /\ l2_cache.num_sets = 1 /\ l2_cache.associativity = 2
        /\ obs.L1.read_misses = 3
        /\ obs.L2.read_misses = 3
        /\ mem.reads = 3
        /\ mem.writes = 0
        /\ \E i \in Logged("evict", "L1", 0) : ~step_log[i].dirty
        /\ \E i \in Logged("evict", "L2", 0) : ~step_log[i].dirty
        /\ l1_cache.stats.reads = 3
        /\ l1_cache.stats.read_misses = 3
        /\ l1_cache.stats.writebacks = 0
        /\ l2_cache.stats.reads = 3
        /\ l2_cache.stats.read_misses = 3
        /\ l2_cache.stats.writebacks = 0
        /\ memory_traffic = 3

\* the set and tag under which level c holds the block of a byte address
HoldsBlockOf(c, address) ==
    LET block_addr == address \div c.block_size
    IN  Present(c, SetIndexOf(block_addr, c.num_sets),
                TagOf(block_addr, c.num_sets))

\* the byte address of the block a line of level c holds
BlockAddressOf(c, set, way) ==
    (c.cache_sets[set][way].tag * c.num_sets + set) * c.block_size

\* C15 as stated: the hierarchy is inclusive, after every reference every
\* block that is valid in L1 is also valid in L2.
C15_Inclusive ==
    (is_enabled(l1_cache) /\ is_enabled(l2_cache)) =>
        \A set \in SetsOf(l1_cache) : \A way \in WaysOf(l1_cache) :
            l1_cache.cache_sets[set][way].valid =>
                HoldsBlockOf(l2_cache, BlockAddressOf(l1_cache, set, way))

\* C15: inclusion holds for the demand-fetched block only: after a reference
\* that misses in L1 (L2 enabled), the block L1 has just installed is valid
\* in L2; blocks L1 installed earlier may have been evicted from L2 since.
C15_DemandFetchedInL2 ==
    (is_enabled(l1_cache) /\ is_enabled(l2_cache)) =>
        \A i \in LoggedKinds("L1", "install") :
            /\ HoldsBlockOf(l1_cache, step_log[i].addr)
            /\ HoldsBlockOf(l2_cache, step_log[i].addr)

\* L1 has just installed a block while it still holds an older block that
\* L2 has evicted in the meantime
C15_Witness ==
    /\ is_enabled(l1_cache) /\ is_enabled(l2_cache)
    /\ LoggedKinds("L1", "install") # {}
    /\ LoggedKinds("L2", "evict") # {}
    /\ \E set \in SetsOf(l1_cache) : \E way \in WaysOf(l1_cache) :
          /\ l1_cache.cache_sets[set][way].valid
          /\ ~HoldsBlockOf(l2_cache, BlockAddressOf(l1_cache, set, way))

\* C16: an access presented to a disabled level changes no line of that
\* level and is passed on to its successor: with L1 disabled every trace
\* reference reaches L2, or the sink when L2 is disabled too.
C16_DisabledLevelForwards ==
    ~is_enabled(l1_cache) =>
        /\ l1_cache.cache_sets = BuildL1(cfg).cache_sets
        /\ l1_cache.lru_lists = BuildL1(cfg).lru_lists
        /\ IF is_enabled(l2_cache)
           THEN obs.L2.reads + obs.L2.writes = total_accesses
           ELSE mem.reads + mem.writes = total_accesses

\* an enabled level (size s > 0) breaks a rule of configuration validity
ViolatesRule(bs, s, assoc) ==
    /\ s > 0
    /\ \/ ~is_power_of_two(bs)
       \/ s % bs # 0
       \/ assoc <= 0
       \/ assoc > s \div bs
       \/ ~is_power_of_two((s \div bs) \div assoc)

Printed(kind) == {i \in 1..Len(outputs) : outputs[i].kind = kind}

\* C17: when an enabled level violates a validity rule the simulator ends
\* with exit code 1 and a diagnostic, before any trace reference is applied
\* and without a results block.
C17_InvalidConfigurationRejected ==
    (/\ \/ ViolatesRule(cfg.blocksize, cfg.l1_size, cfg.l1_assoc)
        \/ ViolatesRule(cfg.blocksize, cfg.l2_size, cfg.l2_assoc)
     /\ pc # "validate") =>
        /\ pc = "exit1"
        /\ Printed("error") # {}
        /\ Printed("results") = {}
        /\ total_accesses = 0
        /\ line_number = 0

\* C18: producing the content dump of a level changes no line, no recency
\* order and no counter of any level.
C18_DumpChangesNothing ==
    [][(pc = "contents_l1" \/ pc = "contents_l2") =>
          (/\ l1_cache' = l1_cache
           /\ l2_cache' = l2_cache
           /\ mem' = mem
           /\ obs' = obs)]_vars

\* both levels have been dumped, L1 with a dirty block, L2 not empty
C18_Witness ==
    /\ pc = "results"
    /\ \E i \in Printed("contents") :
          /\ outputs[i].level = "L1"
          /\ \E j \in 1..Len(outputs[i].sets) :
                \E k \in 1..Len(outputs[i].sets[j].blocks) :
                    outputs[i].sets[j].blocks[k].dirty
    /\ \E i \in Printed("contents") :
          outputs[i].level = "L2" /\ outputs[i].sets # <<>>

\* the lookups of a level among the calls of one trace line
AccessEvents(log, lvl) ==
    {i \in 1..Len(log) : log[i].lvl = lvl /\ log[i].kind \in {"hit", "miss"}}

FirstAccess(log, lvl) == log[MinOf(AccessEvents(log, lvl))]

Hits(stats) == stats.read_hits + stats.write_hits

\* C19: access(a, w) on an enabled level returns true exactly when, just
\* before the call, the set indexed by a holds a valid line with the tag of
\* a (both taken from a \div B, so the bits below log2(B) play no part).
C19_HitIffPresentBefore ==
    [][\A lvl \in EnabledLevels :
          AccessEvents(step_log', lvl) # {} =>
             (LET e == FirstAccess(step_log', lvl)
              IN  /\ (e.kind = "hit") <=> HoldsBlockOf(CacheOf(lvl), e.addr)
                  /\ lvl = "L1" =>
                        ((Hits(l1_cache'.stats) = Hits(l1_cache.stats) + 1)
                            <=> HoldsBlockOf(l1_cache, e.addr)))]_vars

\* a hit on an address that is not block aligned, after a miss
C19_Witness ==
    /\ AccessEvents(step_log, "L1") # {}
    /\ FirstAccess(step_log, "L1").kind = "hit"
    /\ FirstAccess(step_log, "L1").addr % l1_cache.block_size # 0
    /\ Hits(l1_cache.stats) >= 1
    /\ Misses(l1_cache.stats) >= 2

ValidAndTag(c) ==
    [set \in DOMAIN c.cache_sets |-> [way \in DOMAIN c.cache_sets[set] |->
        <<c.cache_sets[set][way].valid, c.cache_sets[set][way].tag>>]]

\* C20: a hit at a level makes no access to the next level and no sink
\* operation, leaves the next level as it is, and changes no valid flag and
\* no tag of the hit level.
C20_HitMakesNoTraffic ==
    [][/\ (/\ AccessEvents(step_log', "L1") # {}
           /\ FirstAccess(step_log', "L1").kind = "hit") =>
              (/\ Len(step_log') = 1
               /\ l2_cache' = l2_cache
               /\ obs'.L2 = obs.L2
               /\ mem' = mem
               /\ l1_cache'.stats.writebacks = l1_cache.stats.writebacks
               /\ ValidAndTag(l1_cache') = ValidAndTag(l1_cache))
       /\ (/\ AccessEvents(step_log', "L2") # {}
           /\ \A i \in AccessEvents(step_log', "L2") : step_log'[i].kind = "hit") =>
              (/\ mem' = mem
               /\ l2_cache'.stats.writebacks = l2_cache.stats.writebacks
               /\ ValidAndTag(l2_cache') = ValidAndTag(l2_cache))]_vars

\* a write hit in L1 once L2 holds blocks, and L2 hits since the start
C20_Witness ==
    /\ is_enabled(l2_cache)
    /\ step_log # <<>>
    /\ step_log[1].kind = "hit" /\ step_log[1].lvl = "L1"
    /\ step_log[1].is_write
    /\ obs.L2.reads >= 2
    /\ obs.L2.reads + obs.L2.writes > Misses(obs.L2)

\* block addresses (a \div B) of the valid lines of a level, of its dirty
\* lines, and of the victims a level cleared after position `from` of a log
ResidentBlocks(c) ==
    {c.cache_sets[set][way].tag * c.num_sets + set :
        <<set, way>> \in {sw \in SetsOf(c) \X WaysOf(c) :
                            c.cache_sets[sw[1]][sw[2]].valid}}

DirtyBlocks(c) ==
    {c.cache_sets[set][way].tag * c.num_sets + set :
        <<set, way>> \in {sw \in SetsOf(c) \X WaysOf(c) :
                            /\ c.cache_sets[sw[1]][sw[2]].valid
                            /\ c.cache_sets[sw[1]][sw[2]].dirty}}

EvictedAfter(log, lvl, c, from) ==
    {log[i].addr \div c.block_size :
        i \in {j \in 1..Len(log) : /\ j > from
                                   /\ log[j].lvl = lvl
                                   /\ log[j].kind = "evict"}}

\* dirty lines of level lvl stay dirty, written blocks are dirty, from the
\* level before a line (c) to the level after it (after), by the calls log
DirtySticky(c, after, log, lvl) ==
    /\ \A b \in DirtyBlocks(c) :
          (b \in ResidentBlocks(after) /\ b \notin EvictedAfter(log, lvl, c, 0))
              => b \in DirtyBlocks(after)
    /\ \A i \in AccessEvents(log, lvl) :
          (/\ log[i].is_write
           /\ (log[i].addr \div c.block_size) \notin EvictedAfter(log, lvl, c, i))
              => (log[i].addr \div c.block_size) \in DirtyBlocks(after)

\* C21: the dirty flag is sticky while the block stays resident: a write
\* (hit or install) sets it, and a dirty line is still dirty after any line
\* of the trace that does not evict it, read hits on it included.
C21_DirtyIsSticky ==
    [][/\ is_enabled(l1_cache) =>
             DirtySticky(l1_cache, l1_cache', step_log', "L1")
       /\ is_enabled(l2_cache) =>
             DirtySticky(l2_cache, l2_cache', step_log', "L2")]_vars

\* a read hit on a dirty line, in L1 and in L2
C21_Witness ==
    /\ is_enabled(l2_cache)
    /\ step_log # <<>>
    /\ step_log[1].kind = "hit" /\ ~step_log[1].is_write
    /\ (step_log[1].addr \div l1_cache.block_size) \in DirtyBlocks(l1_cache)
    /\ DirtyBlocks(l2_cache) # {}
    /\ obs.L2.reads + obs.L2.writes > Misses(obs.L2)

WayOf(c, set, tag) ==
    CHOOSE way \in WaysOf(c) :
        c.cache_sets[set][way].valid /\ c.cache_sets[set][way].tag = tag

PositionOf(seq, x) == CHOOSE i \in 1..Len(seq) : seq[i] = x

\* the other blocks of the same set that level lvl was asked for after
\* position i of a log
AccessedLater(log, lvl, c, i) ==
    LET b == log[i].addr \div c.block_size
    IN  {log[j].addr \div c.block_size :
            j \in {k \in AccessEvents(log, lvl) :
                     /\ k > i
                     /\ SetIndexOf(log[k].addr \div c.block_size, c.num_sets)
                          = SetIndexOf(b, c.num_sets)}} \ {b}

\* c is level lvl after a line, log the calls of that line
AccessLeavesBlockMRU(c, log, lvl) ==
    \A i \in AccessEvents(log, lvl) :
        LET b   == log[i].addr \div c.block_size
            set == SetIndexOf(b, c.num_sets)
            tag == TagOf(b, c.num_sets)
        IN  b \notin EvictedAfter(log, lvl, c, i) =>
              /\ Present(c, set, tag)
              /\ PositionOf(c.lru_lists[set], WayOf(c, set, tag))
                    = 1 + Cardinality(AccessedLater(log, lvl, c, i))
              /\ log[i].kind = "miss" =>
                    c.cache_sets[set][WayOf(c, set, tag)].dirty = log[i].is_write

\* C22: after access(a, w) on an enabled level the set of a holds a valid
\* line with the tag of a at the MRU position (behind only the blocks the
\* level was asked for later in the same line), and after a miss that
\* line's dirty flag equals w.
C22_AccessedBlockIsMRU ==
    /\ is_enabled(l1_cache) => AccessLeavesBlockMRU(l1_cache, step_log, "L1")
    /\ is_enabled(l2_cache) => AccessLeavesBlockMRU(l2_cache, step_log, "L2")

\* a write miss in L1 whose dirty victim L2 installs in the set of the fill
C22_Witness ==
    /\ step_log # <<>>
    /\ step_log[1].kind = "miss" /\ step_log[1].is_write
    /\ \E i \in AccessEvents(step_log, "L2") :
          /\ step_log[i].is_write
          /\ step_log[i].kind = "miss"
          /\ (step_log[i].addr \div l2_cache.block_size)
                \notin EvictedAfter(step_log, "L2", l2_cache, i)
          /\ AccessedLater(step_log, "L2", l2_cache, i) # {}

KindsIn(log, lvl, kind) ==
    {i \in 1..Len(log) : log[i].lvl = lvl /\ log[i].kind = kind}

\* the install that ends the miss at position i of a log
InstallOf(log, lvl, i) ==
    MinOf({k \in 1..Len(log) : /\ k > i
                               /\ log[k].lvl = lvl
                               /\ log[k].kind = "install"})

\* positions of a log where the successor of level c (the next level, or
\* the sink when there is none) observes an operation on the address
ObservedBelow(log, c, lvl, addr, is_write) ==
    {j \in 1..Len(log) :
        /\ log[j].addr = addr
        /\ log[j].is_write = is_write
        /\ IF c.next_level # "nullptr"
           THEN log[j].lvl = c.next_level /\ log[j].kind \in {"hit", "miss"}
           ELSE log[j].lvl = lvl
                  /\ log[j].kind = (IF is_write THEN "mem_write" ELSE "mem_read")}

WritebackBeforeFill(log, c, lvl) ==
    \A i \in {j \in AccessEvents(log, lvl) : log[j].kind = "miss"} :
        LET k     == InstallOf(log, lvl, i)
            reads == {j \in ObservedBelow(log, c, lvl, log[k].addr, FALSE) :
                        i < j /\ j < k}
        IN  /\ reads # {}
            /\ \A e \in {j \in KindsIn(log, lvl, "evict") :
                            i < j /\ j < k /\ log[j].dirty} :
                  \E w \in ObservedBelow(log, c, lvl, log[e].addr, TRUE) :
                      /\ i < w
                      /\ \A r \in reads : w < r

\* C23: on a miss that evicts a dirty victim the successor (next level or
\* sink) observes the write of the victim's block before the read of the
\* requested block, and both before the block is installed in the missing
\* level, at L1 and at L2.
C23_WritebackBeforeFill ==
    /\ is_enabled(l1_cache) => WritebackBeforeFill(step_log, l1_cache, "L1")
    /\ is_enabled(l2_cache) => WritebackBeforeFill(step_log, l2_cache, "L2")

\* one line makes L1 write a dirty victim to L2 and L2 write a dirty victim
\* to the sink
C23_Witness ==
    /\ \E e \in LoggedKinds("L1", "evict") : step_log[e].dirty
    /\ \E e \in LoggedKinds("L2", "evict") : step_log[e].dirty
    /\ LoggedKinds("L2", "mem_write") # {}
    /\ LoggedKinds("L2", "mem_read") # {}

DirtyEvictedBy(log, lvl, c) ==
    {log[e].addr \div c.block_size :
        e \in {j \in KindsIn(log, lvl, "evict") : log[j].dirty}}

\* C24: the fill a level issues on a miss is a read, also for a write miss;
\* so L2 receives a write only as the writeback of a dirty L1 victim, a read
\* only as the fill of the block L1 installs, and a line of L2 becomes dirty
\* only in a trace line in which L1 evicts that block dirty.
C24_FillIsARead ==
    [][(is_enabled(l1_cache) /\ is_enabled(l2_cache)) =>
         (/\ \A j \in AccessEvents(step_log', "L2") :
                IF step_log'[j].is_write
                THEN \E e \in KindsIn(step_log', "L1", "evict") :
                        /\ e > j
                        /\ step_log'[e].dirty
                        /\ step_log'[e].addr = step_log'[j].addr
                ELSE \E k \in KindsIn(step_log', "L1", "install") :
                        /\ k > j
                        /\ step_log'[k].addr = step_log'[j].addr
          /\ \A i \in {j \in AccessEvents(step_log', "L1") :
                          step_log'[j].kind = "miss"} :
                \E j \in AccessEvents(step_log', "L2") :
                    /\ ~step_log'[j].is_write
                    /\ step_log'[j].addr \div l1_cache.block_size
                          = step_log'[i].addr \div l1_cache.block_size
          /\ \A b \in DirtyBlocks(l2_cache') :
                \/ b \in DirtyEvictedBy(step_log', "L1", l1_cache)
                \/ /\ b \in DirtyBlocks(l2_cache)
                   /\ b \notin EvictedAfter(step_log', "L2", l2_cache, 0))]_vars

\* a write miss in L1 that evicts nothing dirty, L2 holding a dirty block
C24_Witness ==
    /\ is_enabled(l2_cache)
    /\ step_log # <<>>
    /\ step_log[1].lvl = "L1" /\ step_log[1].kind = "miss"
    /\ step_log[1].is_write
    /\ DirtyEvictedBy(step_log, "L1", l1_cache) = {}
    /\ \E j \in AccessEvents(step_log, "L2") : ~step_log[j].is_write
    /\ DirtyBlocks(l2_cache) # {}

\* the block of address a at level c round-trips through set index and tag
RoundTrips(c, a) ==
    LET block_addr == a \div c.block_size
        set_index  == SetIndexOf(block_addr, c.num_sets)
        tag        == TagOf(block_addr, c.num_sets)
        rebuilt    == ReconstructAddress(tag, set_index, c.num_sets,
                                         c.block_size)
    IN  /\ rebuilt = a - (a % c.block_size)
        /\ SetIndexOf(rebuilt \div c.block_size, c.num_sets) = set_index
        /\ TagOf(rebuilt \div c.block_size, c.num_sets) = tag

\* C25: the address (tag * sets + set_index) * B rebuilt from the
\* decomposition of a is a rounded down to a multiple of B and decomposes
\* to the same (set_index, tag); the fill address names the requested block
\* and the writeback address a block installed earlier in that set.
C25_AddressRoundTrips ==
    \A i \in AccessEvents(step_log, "L1") :
        LET a == step_log[i].addr
            B == l1_cache.block_size
        IN  /\ RoundTrips(l1_cache, a)
            /\ step_log[i].kind = "miss" =>
                  /\ step_log[InstallOf(step_log, "L1", i)].addr = a - (a % B)
                  /\ \A r \in KindsIn(step_log, "L1", "mem_read") :
                        step_log[r].addr = a - (a % B)
                  /\ HoldsBlockOf(l1_cache, a)
            /\ \A e \in KindsIn(step_log, "L1", "evict") :
                  /\ RoundTrips(l1_cache, step_log[e].addr)
                  /\ step_log[e].addr % B = 0
                  /\ <<SetIndexOf(step_log[e].addr \div B, l1_cache.num_sets),
                       TagOf(step_log[e].addr \div B, l1_cache.num_sets)>>
                        \in obs.L1.installed
                  /\ \A w \in KindsIn(step_log, "L1", "mem_write") :
                        step_log[w].addr = step_log[e].addr

\* a high, unaligned address misses in a set other than 0 and its dirty
\* victim is written to the sink
C25_Witness ==
    /\ step_log # <<>>
    /\ step_log[1].kind = "miss"
    /\ step_log[1].addr > HighBase
    /\ step_log[1].addr % l1_cache.block_size # 0
    /\ SetIndexOf(step_log[1].addr \div l1_cache.block_size,
                  l1_cache.num_sets) # 0
    /\ KindsIn(step_log, "L1", "mem_write") # {}

ValidWays(c, set) == {way \in WaysOf(c) : c.cache_sets[set][way].valid}

\* C26 as stated: cold misses of a set install into way 0 first, then way
\* 1, and so on: the valid ways of a set are always the lowest ones.
C26_ColdFillsAscend ==
    \A lvl \in EnabledLevels : \A set \in SetsOf(CacheOf(lvl)) :
        \A way \in ValidWays(CacheOf(lvl), set) :
            \A lower \in 0..(way - 1) : lower \in ValidWays(CacheOf(lvl), set)

\* C26: the recency order starts as 0, 1, ..., A-1 with the victim taken at
\* its back, so cold misses of a set install into way A-1 first, then A-2,
\* down to way 0: the valid ways of a set are always the highest ones.
C26_ColdFillsDescend ==
    \A lvl \in EnabledLevels : \A set \in SetsOf(CacheOf(lvl)) :
        \A way \in ValidWays(CacheOf(lvl), set) :
            \A higher \in (way + 1)..(CacheOf(lvl).associativity - 1) :
                higher \in ValidWays(CacheOf(lvl), set)

\* two cold misses into a set of four ways
C26_Witness ==
    /\ l1_cache.associativity = 4
    /\ Misses(l1_cache.stats) = 2
    /\ LoggedKinds("L1", "install") # {}
    /\ Cardinality(ValidWays(l1_cache, 0)) = 2

\* the addresses of the events of one kind a level logged, in order
RECURSIVE AddressesOf(_, _, _)
AddressesOf(log, lvl, kind) ==
    IF log = <<>> THEN <<>>
    ELSE (IF Head(log).lvl = lvl /\ Head(log).kind = kind
          THEN <<Head(log).addr>> ELSE <<>>)
         \o AddressesOf(Tail(log), lvl, kind)

\* the tags of the valid lines of a set in the order of its recency list
RECURSIVE TagsInOrder(_, _, _)
TagsInOrder(c, set, lru_list) ==
    IF lru_list = <<>> THEN <<>>
    ELSE (IF c.cache_sets[set][Head(lru_list)].valid
          THEN <<c.cache_sets[set][Head(lru_list)].tag>> ELSE <<>>)
         \o TagsInOrder(c, set, Tail(lru_list))

\* C27: true LRU: a level evicts exactly the blocks, in the same order, that
\* a reference model evicts which orders the resident blocks of a set by the
\* time of their last access (hit or install) and drops the oldest; and the
\* valid lines read along the recency list are that order.
C27_TrueLRU ==
    \A lvl \in EnabledLevels :
        /\ AddressesOf(step_log, lvl, "evict")
              = AddressesOf(step_log, lvl, "ref_evict")
        /\ \A set \in SetsOf(CacheOf(lvl)) :
              TagsInOrder(CacheOf(lvl), set, CacheOf(lvl).lru_lists[set])
                  = obs[lvl].reference[set]

\* an eviction from a full set of L1 after a hit has reordered it, and an
\* eviction in L2 in the same line
C27_Witness ==
    /\ LoggedKinds("L1", "evict") # {}
    /\ LoggedKinds("L2", "evict") # {}
    /\ l1_cache.associativity >= 2
    /\ Hits(l1_cache.stats) >= 1

SinkEvents(log, lvl) ==
    KindsIn(log, lvl, "mem_read") \cup KindsIn(log, lvl, "mem_write")

\* C28: every top-level access terminates: L1 points to L2 or to the sink
\* and L2 to the sink only; one trace line makes one L1 lookup, at most two
\* L2 lookups (writeback, fill) and at most two sink operations per miss of
\* the last level; every miss is ended by its install in the same line, and
\* the line's last call is the L1 hit or the L1 install, so nothing induced
\* by a reference is left for the next one.
C28_AccessTerminates ==
    /\ l2_cache.next_level = "nullptr"
    /\ l1_cache.next_level = (IF is_enabled(l2_cache) THEN "L2" ELSE "nullptr")
    /\ step_log # <<>> =>
          /\ Cardinality(AccessEvents(step_log, "L1")) = 1
          /\ step_log[1].lvl = "L1" /\ step_log[1].kind \in {"hit", "miss"}
          /\ step_log[Len(step_log)].lvl = "L1"
          /\ step_log[Len(step_log)].kind =
                (IF step_log[1].kind = "hit" THEN "hit" ELSE "install")
          /\ Cardinality(AccessEvents(step_log, "L2")) <= 2
          /\ IF is_enabled(l2_cache)
             THEN /\ SinkEvents(step_log, "L1") = {}
                  /\ Cardinality(SinkEvents(step_log, "L2"))
                        <= 2 * Cardinality(KindsIn(step_log, "L2", "miss"))
             ELSE /\ AccessEvents(step_log, "L2") = {}
                  /\ Cardinality(SinkEvents(step_log, "L1"))
                        <= 2 * Cardinality(KindsIn(step_log, "L1", "miss"))
          /\ \A lvl \in EnabledLevels :
                /\ Cardinality(KindsIn(step_log, lvl, "miss"))
                      = Cardinality(KindsIn(step_log, lvl, "install"))
                /\ \A i \in KindsIn(step_log, lvl, "miss") :
                      \E k \in KindsIn(step_log, lvl, "install") :
                          /\ k > i
                          /\ step_log[k].addr \div CacheOf(lvl).block_size
                                = step_log[i].addr \div CacheOf(lvl).block_size
    /\ total_accesses = obs.L1.reads + obs.L1.writes

\* one line in which the writeback and the fill both miss in L2 and L2
\* makes three sink operations
C28_Witness ==
    /\ Cardinality(KindsIn(step_log, "L2", "miss")) = 2
    /\ Cardinality(SinkEvents(step_log, "L2")) = 3
    /\ step_log[Len(step_log)].kind = "install"

ValidLines(c) ==
    {sw \in SetsOf(c) \X WaysOf(c) : c.cache_sets[sw[1]][sw[2]].valid}

\* C29: in every set of every level the valid ways precede the invalid ways
\* in the recency order; a set a victim was evicted from is full; and while
\* no set of a level is full, every miss of the level has filled an invalid
\* way and nothing was evicted or written back.
C29_InvalidWaysAtLRUEnd ==
    \A lvl \in EnabledLevels :
        LET c == CacheOf(lvl) IN
        /\ \A set \in SetsOf(c) :
              \A i \in 1..Len(c.lru_lists[set]) :
                  \A j \in (i + 1)..Len(c.lru_lists[set]) :
                      c.cache_sets[set][c.lru_lists[set][j]].valid
                          => c.cache_sets[set][c.lru_lists[set][i]].valid
        /\ \A e \in LoggedKinds(lvl, "evict") :
              AllValid(c, SetIndexOf(step_log[e].addr \div c.block_size,
                                     c.num_sets))
        /\ (\A set \in SetsOf(c) : ~AllValid(c, set)) =>
              /\ Cardinality(ValidLines(c)) = Misses(obs[lvl])
              /\ obs[lvl].dirty_evictions = 0
              /\ c.stats.writebacks = 0

\* a set of four ways, half filled, reordered by a hit
C29_Witness ==
    /\ l1_cache.associativity = 4
    /\ Cardinality(ValidWays(l1_cache, 0)) = 2
    /\ Hits(l1_cache.stats) >= 1
    /\ step_log # <<>> /\ step_log[1].kind = "hit"
    /\ l1_cache.lru_lists[0][1] # 2

\* C30: in every set of every level no two valid lines hold the same tag.
C30_NoDuplicateTags ==
    \A lvl \in EnabledLevels :
        LET c == CacheOf(lvl) IN
        \A set \in SetsOf(c) : \A way \in WaysOf(c) : \A other \in WaysOf(c) :
            (/\ way # other
             /\ c.cache_sets[set][way].valid
             /\ c.cache_sets[set][other].valid)
                => c.cache_sets[set][way].tag # c.cache_sets[set][other].tag

\* full sets of two ways in L1 and in L2, after a line in which L2 hit on
\* the writeback and missed on the fill
C30_Witness ==
    /\ is_enabled(l2_cache)
    /\ l1_cache.associativity = 2 /\ AllValid(l1_cache, 0)
    /\ l2_cache.associativity = 2 /\ AllValid(l2_cache, 0)
    /\ KindsIn(step_log, "L2", "hit") # {}
    /\ KindsIn(step_log, "L2", "miss") # {}

\* C31: no write is lost: after every trace reference, every block the trace
\* has written is valid and dirty in L1, or valid and dirty in L2 (when L2
\* is enabled), or the memory sink has been handed a write of the block in a
\* reference later than the last trace write to it (the block has then left
\* obs.L1.unflushed).
C31_NoWriteLost ==
    \A b \in obs.L1.unflushed :
        \/ b \in DirtyBlocks(l1_cache)
        \/ is_enabled(l2_cache) /\ b \in DirtyBlocks(l2_cache)

\* the same with L1 enabled, where every write enters a line of L1
C31_NoWriteLostBehindL1 ==
    is_enabled(l1_cache) => C31_NoWriteLost

\* the line of the trace just processed missed in L1
MissedInL1(log) ==
    log # <<>> /\ log[1].lvl = "L1" /\ log[1].kind = "miss"

\* level c holds the block of a byte address in the MRU way of its set
HoldsAsMRU(c, address) ==
    LET b   == address \div c.block_size
        set == SetIndexOf(b, c.num_sets)
        tag == TagOf(b, c.num_sets)
    IN  /\ Present(c, set, tag)
        /\ c.lru_lists[set][1] = WayOf(c, set, tag)

\* C32: with L1 and L2 enabled, after a trace reference that misses in L1
\* the referenced block is valid in L2 and its way is the MRU of its L2
\* set: the writeback of the L1 victim reaches L2 before the fill read.
C32_MissLeavesBlockMRUInL2 ==
    (is_enabled(l1_cache) /\ is_enabled(l2_cache) /\ MissedInL1(step_log)) =>
        HoldsAsMRU(l2_cache, step_log[1].addr)

\* an L1 miss whose dirty victim missed in L2 as a write, in the L2 set of
\* two ways that the fill then went to
C32_Witness ==
    /\ is_enabled(l1_cache) /\ is_enabled(l2_cache)
    /\ MissedInL1(step_log)
    /\ l2_cache.associativity = 2 /\ AllValid(l2_cache, 0)
    /\ \E i \in KindsIn(step_log, "L2", "miss") : step_log[i].is_write

\* the sets of a level other than the one a byte address indexes hold the
\* same lines in the same recency order before and after
FrameKept(before, after, address) ==
    \A set \in SetsOf(before) :
        set # (address \div before.block_size) % before.num_sets =>
            /\ after.cache_sets[set] = before.cache_sets[set]
            /\ after.lru_lists[set] = before.lru_lists[set]

IsAccessAt(e, lvl) == e.lvl = lvl /\ e.kind \in {"hit", "miss"}

\* the accesses a line presented to L2, in the order of the calls
AccessesAtL2(log) == SelectSeq(log, LAMBDA e : IsAccessAt(e, "L2"))

\* the accesses of a line applied to level lvl one after the other: the
\* level they leave, and whether each of them kept the frame
RECURSIVE Replay(_, _, _)
Replay(h, lvl, events) ==
    IF events = <<>> THEN [h |-> h, framed |-> TRUE]
    ELSE LET e    == Head(events)
             r    == access(h, lvl, e.addr, e.is_write).h
             rest == Replay(r, lvl, Tail(events))
         IN  [h |-> rest.h,
              framed |-> FrameKept(h[lvl], r[lvl], e.addr) /\ rest.framed]

\* C33: an access to address a at a level changes lines and recency order
\* only in the set a indexes at that level, on a hit and on a miss: the one
\* access a line presents to L1, and each of the accesses (writeback, fill)
\* it presents to L2, taken one at a time, leaves every other set as it was.
C33_AccessChangesOneSet ==
    [][/\ (is_enabled(l1_cache) /\ step_log' # <<>>) =>
             FrameKept(l1_cache, l1_cache', step_log'[1].addr)
       /\ is_enabled(l2_cache) =>
             LET r == Replay(Hierarchy, "L2", AccessesAtL2(step_log'))
             IN  /\ r.framed
                 /\ r.h.L2.cache_sets = l2_cache'.cache_sets
                 /\ r.h.L2.lru_lists = l2_cache'.lru_lists]_vars

\* a line whose writeback hit in one set of L2 and whose fill missed in the
\* other, both sets holding a valid line
C33_Witness ==
    /\ is_enabled(l2_cache) /\ l2_cache.num_sets = 2
    /\ AllValid(l2_cache, 0) /\ AllValid(l2_cache, 1)
    /\ KindsIn(step_log, "L2", "hit") # {}
    /\ KindsIn(step_log, "L2", "miss") # {}
    /\ Cardinality({(step_log[i].addr \div l2_cache.block_size) % 2 :
                       i \in AccessEvents(step_log, "L2")}) = 2

====
